---- MODULE Spec2Model ----
(***************************************************************************)
(* s3rmdir: list every object version and delete marker under a prefix of  *)
(* a versioned bucket, group the entries into batches, delete each batch   *)
(* in its own goroutine, and aggregate the per-batch results.              *)
(*                                                                         *)
(* Strings are sequences of one-character strings.  The storage service is *)
(* the environment: it chooses the pages of the listing, whether a call    *)
(* fails, and how many per-item errors a delete request reports.           *)
(***************************************************************************)
EXTENDS Integers, Sequences, FiniteSets, TLC

\* ------------------------------------------------------------------ bounds
MaxPages == 2        \* pages the listing returns at most
MaxVersions == 2     \* entries of page.Versions at most
MaxMarkers == 1      \* entries of page.DeleteMarkers at most
MaxEntries == 3      \* entries of the whole listing at most
MaxBatch == 2        \* largest value of the -batch flag explored (from 0)
MaxErrors == 1       \* per-item errors one delete request reports at most
ScaledResultsCap == 1  \* buffer of the results channel in FairSpec's scaled runs
MaxPrefixLen == 4    \* longest -prefix value explored by PrefixSpec

\* ------------------------------------------------------------------ program constants
ResultsCap == 1000   \* results := make(chan deleteBatchResult, 1000)

\* ------------------------------------------------------------------ inputs
\* Object keys the listing may return.
Keys == { <<"a", "/", "a">>, <<"a", "a">> }

\* Values of the -prefix flag.
FlagPrefixes == { <<>>, <<"/", "a">> }

\* Values of the -batch flag (an unsigned integer; 0 is accepted).
FlagBatchSizes == 0..MaxBatch

\* ------------------------------------------------------------------ strings
RECURSIVE TrimLeft(_, _)
TrimLeft(s, c) ==
    IF s # <<>> /\ Head(s) = c THEN TrimLeft(Tail(s), c) ELSE s

RECURSIVE TrimRight(_, _)
TrimRight(s, c) ==
    IF s # <<>> /\ s[Len(s)] = c THEN TrimRight(SubSeq(s, 1, Len(s) - 1), c) ELSE s

\* Variant of Trim: only the trailing characters are cut (strings.TrimRight).
TrimRightOnly(s, c) == TrimRight(s, c)

\* strings.Trim(s, c) for a one-character cutset
Trim(s, c) == TrimRight(TrimLeft(s, c), c)

\* strings.HasPrefix(s, p)
HasPrefix(s, p) == Len(s) >= Len(p) /\ SubSeq(s, 1, Len(p)) = p

\* prefix := strings.Trim(*fPrefix, "/"); if prefix != "" { prefix += "/" }
NormalizePrefix(p) ==
    LET t == Trim(p, "/") IN IF t # <<>> THEN t \o <<"/">> ELSE t

\* ------------------------------------------------------------------ state
VARIABLES
    fPrefix,       \* the -prefix flag
    prefix,        \* the normalized prefix
    batchSize,     \* int(*fBatchSize)
    more,          \* objectPaginator.HasMorePages()
    npages,        \* pages fetched so far
    page,          \* the page being processed
    pos,           \* entries of the page already passed to deleteVersion
    batch,         \* the open batch: the elements of the slice
    batchArr,      \* the backing array of the slice batch
    batchCap,      \* cap(batch)
    numObjects,    \* entries observed by the listing loop
    pc,            \* position of main
    workers,       \* the deleteObjectVersions goroutines, in dispatch order
    results,       \* the results channel
    aggPc,         \* position of the aggregator goroutine
    r,             \* the result the aggregator is processing
    numProcessed,  \* aggregator total
    numErrors,     \* aggregator total
    waitGroup,     \* counter of the sync.WaitGroup
    output,        \* lines printed to standard output
    run,           \* "running", "fatal" (os.Exit(1)) or "success"
    cause,         \* which log.Fatalf ended the run
    listed,        \* entries returned by the listing so far, in listing order
    received,      \* results the aggregator has taken from the channel, in order
    resultsCap     \* cap(results)

vars == << fPrefix, prefix, batchSize, more, npages, page, pos, batch, batchArr,
           batchCap, numObjects,
           pc, workers, results, aggPc, r, numProcessed, numErrors, waitGroup,
           output, run, cause, listed, received, resultsCap >>

mainVars == << more, npages, page, pos, batch, batchArr, batchCap, numObjects,
              pc, listed >>
aggVars == << aggPc, r, numProcessed, numErrors, output, received >>
cfgVars == << fPrefix, prefix, batchSize, resultsCap >>

EmptyPage == [Versions |-> <<>>, DeleteMarkers |-> <<>>]
NoResult == [BatchSize |-> 0, ErrorCount |-> 0]

\* The entries of a page in the order the loops of main visit them.
PageEntries(p) == p.Versions \o p.DeleteMarkers

\* Pages the service may return when `base` entries were listed before; version
\* ids are unique over the listing.
PageShapes(base) ==
    { <<v, m>> \in (0..MaxVersions) \X (0..MaxMarkers) : base + v + m <= MaxEntries }

Pages(base) ==
    { [Versions |-> [i \in 1..nv |-> [Key |-> ks[i], VersionId |-> base + i]],
       DeleteMarkers |-> [i \in 1..nm |-> [Key |-> ks[nv + i], VersionId |-> base + nv + i]]] :
        <<nv, nm, ks>> \in
            UNION { { <<sh[1], sh[2], k>> : k \in [1..(sh[1] + sh[2]) -> Keys] } :
                    sh \in PageShapes(base) } }

\* The state after set-up, with a results channel of one of the capacities caps.
InitWith(caps) ==
    /\ fPrefix \in FlagPrefixes
    /\ prefix = NormalizePrefix(fPrefix)
    /\ batchSize \in FlagBatchSizes
    /\ more = TRUE
    /\ npages = 0
    /\ page = EmptyPage
    /\ pos = 0
    /\ batch = <<>>
    /\ batchArr = 1
    /\ batchCap = batchSize
    /\ numObjects = 0
    /\ pc = "list"
    /\ workers = <<>>
    /\ results = <<>>
    /\ aggPc = "recv"
    /\ r = NoResult
    /\ numProcessed = 0
    /\ numErrors = 0
    /\ waitGroup = 0
    /\ output = <<>>
    /\ run = "running"
    /\ cause = "none"
    /\ listed = <<>>
    /\ received = <<>>
    /\ resultsCap \in caps

\* The program: the results channel buffers ResultsCap results.
Init == InitWith({ResultsCap})

\* The program, and the program with its channel scaled down so that the
\* bounded listings fill it.
ScaledInit == InitWith({ResultsCap, ScaledResultsCap})

\* log.Fatalf: the process exits with status 1; nothing else changes.
Fatal(why) ==
    /\ run' = "fatal"
    /\ cause' = why

\* ------------------------------------------------------------------ main
\* Variant of InScope: the scope check is missing.
InScopeUnchecked(key) == TRUE

\* prefix != "" && !strings.HasPrefix(key, prefix) is the fatal case
InScope(key) == prefix = <<>> \/ HasPrefix(key, prefix)

\* len(batch) == batchSize
Sealed(b) == Len(b) = batchSize

\* go deleteObjectVersions(results, s3Client, *fBucket, b): a new goroutine at
\* its first statement, holding the slice it was given: the elements b in the
\* backing array batchArr (atDispatch records the elements it was given).
Spawn(ws, b) ==
    Append(ws, [objectVersions |-> b, arr |-> batchArr, atDispatch |-> b,
                pc |-> "request", Objects |-> <<>>, ErrorCount |-> 0])

\* A write of e at index idx of the array arr, as seen through the slices the
\* workers ws hold.
WriteThrough(ws, arr, idx, e) ==
    [i \in 1..Len(ws) |->
        IF ws[i].arr = arr /\ idx <= Len(ws[i].objectVersions)
        THEN [ws[i] EXCEPT !.objectVersions[idx] = e]
        ELSE ws[i]]

\* append writes in place while len < cap, and otherwise moves the elements to
\* a new array of larger capacity.
AppendInPlace == Len(batch) < batchCap
GrowCap(c) == IF c = 0 THEN 1 ELSE 2 * c

\* Variant of NewBatchArray: the sealed batch's array is used again
\* (batch = batch[:0]).
ReusedBatchArray(a) == a

\* make allocates an array no other slice refers to.
NewBatchArray(a) == a + 1

\* Variant of Dispatch: the goroutine is started before the wait group is
\* incremented.
DispatchStartsBeforeAdd(step, ws, b) ==
    IF step = 1
    THEN workers' = Spawn(ws, b) /\ UNCHANGED waitGroup
    ELSE waitGroup' = waitGroup + 1 /\ workers' = ws

\* The two statements that dispatch a batch, in program order:
\* waitGroup.Add(1), then go deleteObjectVersions(..., b); ws are the workers
\* as the step finds them.
Dispatch(step, ws, b) ==
    IF step = 1
    THEN waitGroup' = waitGroup + 1 /\ workers' = ws
    ELSE workers' = Spawn(ws, b) /\ UNCHANGED waitGroup

\* Variant of NewBatch: the sealed entries stay in the open batch.
NewBatchKeepsEntries(b) == b

\* batch = make([]objectVersion, 0, batchSize)
NewBatch(b) == <<>>

\* The last entry of the page is the one at position pos + 1: the body of the
\* listing loop ends with it, and page goes out of scope.
LastEntry == pos + 1 = Len(PageEntries(page))

\* The loop over the page moves on after a call of deleteVersion.
Advance ==
    IF LastEntry THEN page' = EmptyPage /\ pos' = 0 /\ pc' = "list"
    ELSE UNCHANGED page /\ pos' = pos + 1 /\ pc' = "page"

\* The closure deleteVersion(key, versionId) of main, up to and including
\* waitGroup.Add(1) when the batch is sealed.
deleteVersion(key, versionId) ==
    IF ~InScope(key)
    THEN /\ Fatal("scope")
         /\ UNCHANGED << batch, batchArr, batchCap, numObjects, waitGroup, workers,
                         page, pos, pc >>
    ELSE LET e == [Key |-> key, VersionId |-> versionId]
             b == Append(batch, e)
             ws == IF AppendInPlace
                   THEN WriteThrough(workers, batchArr, Len(b), e)
                   ELSE workers
         IN
         /\ batch' = b
         /\ batchArr' = IF AppendInPlace THEN batchArr ELSE batchArr + 1
         /\ batchCap' = IF AppendInPlace THEN batchCap ELSE GrowCap(batchCap)
         /\ numObjects' = numObjects + 1
         /\ IF Sealed(b)
            THEN /\ Dispatch(1, ws, b)
                 /\ pc' = "go"
                 /\ UNCHANGED << page, pos >>
            ELSE /\ UNCHANGED waitGroup
                 /\ workers' = ws
                 /\ Advance
         /\ UNCHANGED << run, cause >>

\* Variant of GoSealed: a worker is started only when no other is in flight.
GoSealedOneAtATime ==
    /\ run = "running" /\ pc = "go"
    /\ \A i \in 1..Len(workers) : workers[i].pc = "done"
    /\ Dispatch(2, workers, batch)
    /\ batch' = <<>>
    /\ batchArr' = batchArr + 1
    /\ batchCap' = batchSize
    /\ Advance
    /\ UNCHANGED << more, npages, numObjects, listed, results, run, cause >>
    /\ UNCHANGED << aggVars, cfgVars >>

\* The rest of the closure for a sealed batch: go deleteObjectVersions(...,
\* batch); batch = make(...); the loop over the page moves on.
GoSealed ==
    /\ run = "running" /\ pc = "go"
    /\ Dispatch(2, workers, batch)
    /\ batch' = NewBatch(batch)
    /\ batchArr' = NewBatchArray(batchArr)
    /\ batchCap' = batchSize
    /\ Advance
    /\ UNCHANGED << more, npages, numObjects, listed, results, run, cause >>
    /\ UNCHANGED << aggVars, cfgVars >>

\* objectPaginator.HasMorePages() is true and NextPage returns a page.
NextPage ==
    /\ run = "running" /\ pc = "list" /\ more /\ npages < MaxPages
    /\ \E p \in Pages(Len(listed)), m \in BOOLEAN :
        /\ (npages + 1 = MaxPages) => ~m
        /\ more' = m
        /\ listed' = listed \o PageEntries(p)
        /\ IF PageEntries(p) = <<>>
           THEN page' = EmptyPage /\ pc' = "list"
           ELSE page' = p /\ pc' = "page"
    /\ npages' = npages + 1
    /\ pos' = 0
    /\ UNCHANGED << batch, batchArr, batchCap, numObjects, workers, results,
                    waitGroup, run, cause >>
    /\ UNCHANGED << aggVars, cfgVars >>

\* Variant of NextPageFails: the error is logged and taken as the end of the
\* listing.
NextPageFailsEndsListing ==
    /\ run = "running" /\ pc = "list" /\ more
    /\ cause' = "list"
    /\ more' = FALSE
    /\ UNCHANGED << npages, page, pos, batch, batchArr, batchCap, numObjects, pc, listed >>
    /\ UNCHANGED << run, workers, results, waitGroup, aggVars, cfgVars >>

\* NextPage returns an error: log.Fatalf("failed to list objects")
NextPageFails ==
    /\ run = "running" /\ pc = "list" /\ more
    /\ Fatal("list")
    /\ UNCHANGED << mainVars, workers, results, waitGroup, aggVars, cfgVars >>

\* for _, v := range page.Versions { deleteVersion(*v.Key, *v.VersionId) }
VersionsLoop ==
    /\ run = "running" /\ pc = "page" /\ pos < Len(page.Versions)
    /\ LET v == page.Versions[pos + 1] IN deleteVersion(v.Key, v.VersionId)
    /\ UNCHANGED << more, npages, listed, results, aggVars, cfgVars >>

\* for _, v := range page.DeleteMarkers { deleteVersion(*v.Key, *v.VersionId) }
DeleteMarkersLoop ==
    /\ run = "running" /\ pc = "page" /\ pos >= Len(page.Versions)
    /\ LET v == page.DeleteMarkers[pos + 1 - Len(page.Versions)]
       IN deleteVersion(v.Key, v.VersionId)
    /\ UNCHANGED << more, npages, listed, results, aggVars, cfgVars >>

\* HasMorePages() is false: the listing loop ends.
ListingEnds ==
    /\ run = "running" /\ pc = "list" /\ ~more
    /\ pc' = "flush"
    /\ UNCHANGED << more, npages, page, pos, batch, batchArr, batchCap, numObjects, listed >>
    /\ UNCHANGED << workers, results, waitGroup, run, cause, aggVars, cfgVars >>

\* Variants of FlushNeeded: the final flush is missing; the final flush is
\* unconditional.
FlushNever == FALSE
FlushAlways == TRUE

\* len(batch) > 0
FlushNeeded == Len(batch) > 0

\* if len(batch) > 0 { waitGroup.Add(1); ...
Flush ==
    /\ run = "running" /\ pc = "flush"
    /\ IF FlushNeeded
       THEN Dispatch(1, workers, batch) /\ pc' = "goFlush"
       ELSE UNCHANGED << waitGroup, workers >> /\ pc' = "wait"
    /\ UNCHANGED << more, npages, page, pos, batch, batchArr, batchCap, numObjects, listed >>
    /\ UNCHANGED << results, run, cause, aggVars, cfgVars >>

\* ... go deleteObjectVersions(results, s3Client, *fBucket, batch) }
GoFlush ==
    /\ run = "running" /\ pc = "goFlush"
    /\ Dispatch(2, workers, batch)
    /\ pc' = "wait"
    /\ UNCHANGED << more, npages, page, pos, batch, batchArr, batchCap, numObjects, listed >>
    /\ UNCHANGED << results, run, cause, aggVars, cfgVars >>

\* Variant of WaitReturns: main does not wait for the counter.
WaitReturnsAtOnce == TRUE

\* waitGroup.Wait() returns when the counter is zero.
WaitReturns == waitGroup = 0

Wait ==
    /\ run = "running" /\ pc = "wait"
    /\ WaitReturns
    /\ pc' = "print"
    /\ UNCHANGED << more, npages, page, pos, batch, batchArr, batchCap, numObjects, listed >>
    /\ UNCHANGED << workers, results, waitGroup, run, cause, aggVars, cfgVars >>

TotalLine(n) == [kind |-> "total", objects |-> n]

\* fmt.Printf("total number of objects: %d", numObjects); main returns.
PrintTotal ==
    /\ run = "running" /\ pc = "print"
    /\ output' = Append(output, TotalLine(numObjects))
    /\ run' = "success"
    /\ pc' = "exit"
    /\ UNCHANGED << more, npages, page, pos, batch, batchArr, batchCap, numObjects, listed >>
    /\ UNCHANGED << workers, results, waitGroup, cause, cfgVars >>
    /\ UNCHANGED << aggPc, r, numProcessed, numErrors, received >>

\* ------------------------------------------------------------------ delete worker
\* The loop building deleteParam.Objects from objectVersions.
ObjectIdentifiers(objectVersions) ==
    [i \in 1..Len(objectVersions) |->
        [Key |-> objectVersions[i].Key, VersionId |-> objectVersions[i].VersionId]]

\* len(result.Errors): the service reports at most one error per named entry.
ErrorCounts(objectVersions) ==
    { n \in 0..MaxErrors : n <= Len(objectVersions) }

\* deleteParam.Objects is built from the slice and client.DeleteObjects is
\* called: the request is on its way and the worker waits for the answer.
BuildRequest(i) ==
    /\ run = "running"
    /\ workers[i].pc = "request"
    /\ workers' = [workers EXCEPT
                      ![i].Objects = ObjectIdentifiers(workers[i].objectVersions),
                      ![i].pc = "call"]
    /\ UNCHANGED << mainVars, results, waitGroup, run, cause, aggVars, cfgVars >>

\* client.DeleteObjects returns a result with n per-item errors.
DeleteObjects(i) ==
    /\ run = "running"
    /\ workers[i].pc = "call"
    /\ \E n \in ErrorCounts(workers[i].objectVersions) :
        workers' = [workers EXCEPT
                      ![i].ErrorCount = n,
                      ![i].pc = "send"]
    /\ UNCHANGED << mainVars, results, waitGroup, run, cause, aggVars, cfgVars >>

\* Variant of DeleteObjectsFails: the error is logged and the worker goes on
\* to report its batch.
DeleteObjectsFailsReports(i) ==
    /\ run = "running"
    /\ workers[i].pc = "call"
    /\ cause' = "delete"
    /\ workers' = [workers EXCEPT ![i].pc = "send"]
    /\ UNCHANGED << mainVars, results, waitGroup, run, aggVars, cfgVars >>

\* client.DeleteObjects returns an error: log.Fatalf("failed to delete objects")
DeleteObjectsFails(i) ==
    /\ run = "running"
    /\ workers[i].pc = "call"
    /\ Fatal("delete")
    /\ workers' = [workers EXCEPT ![i].pc = "failed"]
    /\ UNCHANGED << mainVars, results, waitGroup, aggVars, cfgVars >>

\* Variant of BatchResult: BatchSize counts the entries deleted without error.
BatchResultSuccessesOnly(w) ==
    [BatchSize |-> Len(w.objectVersions) - w.ErrorCount, ErrorCount |-> w.ErrorCount]

\* Variant of BatchResult: the two fields are swapped.
BatchResultSwapped(w) ==
    [BatchSize |-> w.ErrorCount, ErrorCount |-> Len(w.objectVersions)]

\* deleteBatchResult{BatchSize: len(objectVersions), ErrorCount: len(result.Errors)}
BatchResult(w) == [BatchSize |-> Len(w.objectVersions), ErrorCount |-> w.ErrorCount]

\* resultChannel <- deleteBatchResult{...}: blocks while the buffer is full.
SendResult(i) ==
    /\ run = "running"
    /\ workers[i].pc = "send"
    /\ Len(results) < resultsCap
    /\ results' = Append(results, BatchResult(workers[i]))
    /\ workers' = [workers EXCEPT ![i].pc = "done"]
    /\ UNCHANGED << mainVars, waitGroup, run, cause, aggVars, cfgVars >>

\* ------------------------------------------------------------------ aggregator
\* Variant of AddProcessed: = in place of +=.
AddProcessedAssigns(total, res) == res.BatchSize

\* Variant of AddProcessed: the batches are counted, not their entries.
AddProcessedCountsBatches(total, res) == total + 1

\* numProcessed += r.BatchSize
AddProcessed(total, res) == total + res.BatchSize

\* Variant of AddErrors: = in place of +=.
AddErrorsAssigns(total, res) == res.ErrorCount

\* numErrors += r.ErrorCount
AddErrors(total, res) == total + res.ErrorCount

\* for r := range results { numProcessed += r.BatchSize; numErrors += r.ErrorCount
Receive ==
    /\ run = "running" /\ aggPc = "recv"
    /\ results # <<>>
    /\ r' = Head(results)
    /\ received' = Append(received, Head(results))
    /\ results' = Tail(results)
    /\ numProcessed' = AddProcessed(numProcessed, r')
    /\ numErrors' = AddErrors(numErrors, r')
    /\ aggPc' = "print"
    /\ UNCHANGED << mainVars, workers, waitGroup, output, run, cause, cfgVars >>

\* Variant of ProgressLine: the arguments of Printf are swapped.
ProgressLineSwapped(p, e) == [kind |-> "progress", processed |-> e, errors |-> p]

ProgressLine(p, e) == [kind |-> "progress", processed |-> p, errors |-> e]

\* fmt.Printf("%d objects deleted, %d errors\n", numProcessed, numErrors)
PrintProgress ==
    /\ run = "running" /\ aggPc = "print"
    /\ output' = Append(output, ProgressLine(numProcessed, numErrors))
    /\ aggPc' = "done"
    /\ UNCHANGED << mainVars, workers, results, waitGroup, run, cause, cfgVars >>
    /\ UNCHANGED << r, numProcessed, numErrors, received >>

\* Variant of Done: the aggregator does not signal the wait group.
DoneForgetsWaitGroup ==
    /\ run = "running" /\ aggPc = "done"
    /\ aggPc' = "recv"
    /\ r' = NoResult
    /\ UNCHANGED << mainVars, workers, results, waitGroup, run, cause, cfgVars >>
    /\ UNCHANGED << numProcessed, numErrors, output, received >>

\* waitGroup.Done(); the loop variable r goes out of scope.
Done ==
    /\ run = "running" /\ aggPc = "done"
    /\ waitGroup' = waitGroup - 1
    /\ aggPc' = "recv"
    /\ r' = NoResult
    /\ UNCHANGED << mainVars, workers, results, run, cause, cfgVars >>
    /\ UNCHANGED << numProcessed, numErrors, output, received >>

\* ------------------------------------------------------------------ specification
Next ==
    \/ NextPage
    \/ NextPageFails
    \/ VersionsLoop
    \/ DeleteMarkersLoop
    \/ GoSealed
    \/ ListingEnds
    \/ Flush
    \/ GoFlush
    \/ Wait
    \/ PrintTotal
    \/ \E i \in 1..Len(workers) : BuildRequest(i)
    \/ \E i \in 1..Len(workers) : DeleteObjects(i)
    \/ \E i \in 1..Len(workers) : DeleteObjectsFails(i)
    \/ \E i \in 1..Len(workers) : SendResult(i)
    \/ Receive
    \/ PrintProgress
    \/ Done

Spec == Init /\ [][Next]_vars

\* Fair scheduling: the Go scheduler runs every goroutine that can take a step,
\* and the service answers every call; whether a call fails is left open.
Fairness ==
    /\ WF_vars(NextPage)
    /\ WF_vars(VersionsLoop)
    /\ WF_vars(DeleteMarkersLoop)
    /\ WF_vars(GoSealed)
    /\ WF_vars(ListingEnds)
    /\ WF_vars(Flush)
    /\ WF_vars(GoFlush)
    /\ WF_vars(Wait)
    /\ WF_vars(PrintTotal)
    /\ WF_vars(\E i \in 1..Len(workers) : BuildRequest(i))
    /\ WF_vars(\E i \in 1..Len(workers) : DeleteObjects(i))
    /\ WF_vars(\E i \in 1..Len(workers) : SendResult(i))
    /\ WF_vars(Receive)
    /\ WF_vars(PrintProgress)
    /\ WF_vars(Done)

FairSpec == ScaledInit /\ [][Next]_vars /\ Fairness

\* ------------------------------------------------------------------ prefix normalization alone
\* Every value of the -prefix flag up to MaxPrefixLen characters.
PrefixAlphabet == { "a", "b", "/" }
PrefixInputs == UNION { [1..n -> PrefixAlphabet] : n \in 0..MaxPrefixLen }

\* main after flag.Parse(), before the prefix is normalized.
PrefixInit ==
    /\ fPrefix \in PrefixInputs
    /\ prefix = <<>>
    /\ batchSize = 0
    /\ more = TRUE
    /\ npages = 0
    /\ page = EmptyPage
    /\ pos = 0
    /\ batch = <<>>
    /\ batchArr = 1
    /\ batchCap = 0
    /\ numObjects = 0
    /\ pc = "flags"
    /\ workers = <<>>
    /\ results = <<>>
    /\ aggPc = "recv"
    /\ r = NoResult
    /\ numProcessed = 0
    /\ numErrors = 0
    /\ waitGroup = 0
    /\ output = <<>>
    /\ run = "running"
    /\ cause = "none"
    /\ listed = <<>>
    /\ received = <<>>
    /\ resultsCap = ResultsCap

\* prefix := strings.Trim(*fPrefix, "/"); if prefix != "" { prefix += "/" }
ParsePrefix ==
    /\ pc = "flags"
    /\ prefix' = NormalizePrefix(fPrefix)
    /\ pc' = "parsed"
    /\ UNCHANGED << fPrefix, batchSize, more, npages, page, pos, batch, batchArr,
                    batchCap, numObjects,
                    listed, workers, results, waitGroup, run, cause, aggVars,
                    resultsCap >>

PrefixNext == ParsePrefix

PrefixSpec == PrefixInit /\ [][PrefixNext]_vars

\* ------------------------------------------------------------------ vocabulary of the properties
\* The batches handed to delete workers, in dispatch order.
Dispatched == [i \in 1..Len(workers) |-> workers[i].objectVersions]

RECURSIVE Concat(_)
Concat(ss) == IF ss = <<>> THEN <<>> ELSE Head(ss) \o Concat(Tail(ss))

RECURSIVE Sum(_)
Sum(ns) == IF ns = <<>> THEN 0 ELSE Head(ns) + Sum(Tail(ns))

\* The delete requests issued so far, in dispatch order of their workers.
Requests ==
    LET issued == SelectSeq(workers, LAMBDA w : w.pc # "request")
    IN [i \in 1..Len(issued) |-> issued[i].Objects]

\* main has passed the final flush.
Flushed == pc \in {"wait", "print", "exit"}

\* The final line has been printed.
TotalPrinted == \E i \in 1..Len(output) : output[i].kind = "total"

\* Some entry the listing returned is among the dispatched or open entries.
Batched(e) ==
    \/ \E i \in 1..Len(batch) : batch[i] = e
    \/ \E i \in 1..Len(workers) :
          \E j \in 1..Len(workers[i].objectVersions) : workers[i].objectVersions[j] = e

\* ------------------------------------------------------------------ C1
\* C1: for every listing of N entries and every configured capacity C, the
\* listing loop and the final flush dispatch ceil(N/C) batches (none when
\* N = 0); every batch but the last has exactly C entries, the last has
\* between 1 and C, and no empty batch is dispatched.
C1_BatchCountAndSizes ==
    /\ \A i \in 1..Len(workers) :
          /\ Len(workers[i].objectVersions) >= 1
          /\ Len(workers[i].objectVersions) <= batchSize
          /\ (i < Len(workers) => Len(workers[i].objectVersions) = batchSize)
    /\ Flushed =>
          /\ (numObjects = 0 => Len(workers) = 0)
          /\ (numObjects > 0 =>
                /\ Len(workers) * batchSize >= numObjects
                /\ (Len(workers) - 1) * batchSize < numObjects)

\* The same statement for the capacities C >= 1.
C1_PositiveCapacity == batchSize >= 1 => C1_BatchCountAndSizes

\* A run with capacity 2 has dispatched a full batch and a final batch of 1.
C1_PositiveCapacityWitness ==
    /\ batchSize = 2 /\ Flushed /\ numObjects = 3
    /\ Len(workers) = 2 /\ Len(workers[2].objectVersions) = 1

\* ------------------------------------------------------------------ C2
\* C2: when the final total line is printed in a run without fatal error,
\* numProcessed = numObjects = the number of entries the listing returned, a
\* final partial batch included.
C2_TotalsAgree ==
    TotalPrinted => /\ numProcessed = numObjects
                    /\ numObjects = Len(listed)
                    /\ output[Len(output)] = TotalLine(Len(listed))

\* The total was printed after a full batch and a final partial batch.
C2_Witness ==
    /\ TotalPrinted /\ batchSize = 2 /\ Len(listed) = 3
    /\ Len(workers) = 2 /\ Len(workers[2].objectVersions) < batchSize

\* ------------------------------------------------------------------ C3
\* C3: the dispatched batches, concatenated in dispatch order (followed by the
\* open batch while the listing runs), are the listed entries in listing
\* order, versions of a page before its delete markers: nothing is lost,
\* duplicated or shared between batches; every entry is named in exactly one
\* delete request once all requests are issued.
C3_BatchesPartitionListing ==
    /\ ~Flushed => Concat(Dispatched) \o batch = SubSeq(listed, 1, numObjects)
    /\ (Flushed /\ run # "fatal") => Concat(Dispatched) = listed
    /\ \A i \in 1..Len(workers) :
          workers[i].pc # "request" =>
              workers[i].Objects = ObjectIdentifiers(workers[i].objectVersions)
    /\ TotalPrinted => Concat(Requests) = ObjectIdentifiers(listed)

\* A sealed batch of two entries ends with the first entry of the current
\* page, so it began on an earlier page; that page holds a version and a
\* delete marker.
C3_Witness ==
    /\ batchSize = 2 /\ pc = "page" /\ pos = 1 /\ batch = <<>>
    /\ Len(workers) = 1 /\ Len(page.Versions) = 1 /\ Len(page.DeleteMarkers) = 1
    /\ workers[1].objectVersions[2] = page.Versions[1]

\* ------------------------------------------------------------------ C4
\* C4: the final total line is printed only when every dispatched batch's
\* result has been received and applied by the aggregator and the wait group
\* counter is zero; no worker is still to report.
C4_TotalOnlyAfterAllReported ==
    pc \in {"print", "exit"} =>
        /\ waitGroup = 0
        /\ \A i \in 1..Len(workers) : workers[i].pc = "done"
        /\ results = <<>>
        /\ aggPc = "recv"
        /\ numProcessed = Sum([i \in 1..Len(workers) |-> Len(workers[i].objectVersions)])
        /\ Len(output) >= Len(workers)

\* The total was printed in a run with three workers.
C4_Witness == TotalPrinted /\ Len(workers) = 3

\* ------------------------------------------------------------------ C5
\* C5: with a non-empty prefix, an entry whose key does not start with the
\* normalized prefix ends the run before it is appended: every key in a batch
\* or a delete request starts with the prefix, and neither the violating
\* entry nor any entry listed after it is ever batched.
C5_ScopeGuard ==
    prefix # <<>> =>
        /\ \A i \in 1..Len(listed) : Batched(listed[i]) => HasPrefix(listed[i].Key, prefix)
        /\ \A i \in 1..Len(workers) : \A j \in 1..Len(workers[i].Objects) :
              HasPrefix(workers[i].Objects[j].Key, prefix)
        /\ \A i \in 1..Len(listed) :
              ~HasPrefix(listed[i].Key, prefix) =>
                  \A j \in i..Len(listed) : ~Batched(listed[j])
        /\ cause = "scope" =>
              /\ run = "fatal"
              /\ ~HasPrefix(listed[numObjects + 1].Key, prefix)

\* The run ended on a key outside the prefix after a batch was dispatched,
\* with a further entry listed after the violating one.
C5_Witness ==
    /\ cause = "scope" /\ prefix # <<>> /\ workers # <<>>
    /\ Len(listed) > numObjects + 1

\* ------------------------------------------------------------------ C6
\* Results produced by workers, and results the aggregator has taken.
Produced == Len(SelectSeq(workers, LAMBDA w : w.pc = "done"))
Received ==
    Len(SelectSeq(output, LAMBDA l : l.kind = "progress"))
        + (IF aggPc = "print" THEN 1 ELSE 0)

\* C6: a delete request that fails at the transport level ends the whole run:
\* the failed batch has one request and no result, the total line is never
\* printed, and nothing happens afterwards, also when main is already
\* waiting on the wait group.
C6_DeleteFailureAborts ==
    /\ [](cause = "delete" =>
            /\ run = "fatal"
            /\ ~TotalPrinted
            /\ Len(SelectSeq(workers, LAMBDA w : w.pc = "failed")) = 1
            /\ Produced = Received + Len(results)
            /\ waitGroup > 0)
    /\ [][cause = "delete" => UNCHANGED vars]_vars

\* The request of the first of two batches failed while main was waiting and
\* the other batch had been counted.
C6_Witness ==
    /\ cause = "delete" /\ pc = "wait" /\ Len(workers) = 2
    /\ workers[1].pc = "failed" /\ workers[2].pc = "done" /\ numProcessed > 0

\* ------------------------------------------------------------------ C7
\* C7: a failure fetching a page ends the whole run at once: no entry is
\* batched and no batch dispatched afterwards, the workers in flight are
\* neither waited for nor cancelled, and the total line is never printed.
C7_ListingFailureAborts ==
    /\ [](cause = "list" =>
            /\ run = "fatal"
            /\ pc = "list"
            /\ ~TotalPrinted)
    /\ [][cause = "list" => UNCHANGED vars]_vars

\* The second page failed with one worker before its request and one before
\* its send.
C7_Witness ==
    /\ cause = "list" /\ npages = 1 /\ Len(workers) = 2 /\ waitGroup = 2
    /\ workers[1].pc = "request" /\ workers[2].pc = "send"

\* ------------------------------------------------------------------ C8
\* C8: a delete request that completes with per-item failures does not end
\* the run and is not retried: its batch yields one result carrying the full
\* batch size and the number of failures, the totals grow by exactly these,
\* and the run is never stuck short of the total line.
C8_PerItemErrorsCounted ==
    LET done == SelectSeq(workers, LAMBDA w : w.pc = "done") IN
    /\ Sum([i \in 1..Len(done) |-> Len(done[i].objectVersions)])
          = numProcessed + Sum([i \in 1..Len(results) |-> results[i].BatchSize])
    /\ Sum([i \in 1..Len(done) |-> done[i].ErrorCount])
          = numErrors + Sum([i \in 1..Len(results) |-> results[i].ErrorCount])
    /\ Len(Requests) <= Len(workers)
    /\ (run = "fatal" => cause \in {"list", "scope", "delete"})
    /\ (run = "running" => ENABLED Next)

\* A run in which two requests reported a failure ended with the total line.
C8_Witness ==
    /\ run = "success" /\ TotalPrinted /\ numErrors = 2 /\ numProcessed = 3
    /\ Len(workers) = 2

\* ------------------------------------------------------------------ C9
\* C9: once every dispatched worker has reported and the channel is empty,
\* numErrors is the sum over all delete requests of the per-item errors the
\* service returned.
C9_ErrorTotal ==
    ((\A i \in 1..Len(workers) : workers[i].pc = "done") /\ results = <<>>) =>
        numErrors = Sum([i \in 1..Len(workers) |-> workers[i].ErrorCount])

\* All three workers reported, two of them with an error.
C9_Witness ==
    /\ pc = "exit" /\ Len(workers) = 3 /\ numErrors = 2
    /\ workers[1].ErrorCount = 1 /\ workers[2].ErrorCount = 0

\* ------------------------------------------------------------------ C10
\* C10: while the listing has returned no entry, no worker is dispatched, no
\* request issued and the wait group never incremented; such a run ends
\* printing a total of 0 and nothing else, whatever the number of empty pages.
C10_EmptyListing ==
    listed = <<>> =>
        /\ workers = <<>>
        /\ Requests = <<>>
        /\ waitGroup = 0
        /\ results = <<>>
        /\ batch = <<>>
        /\ (Flushed => pc # "wait" \/ ENABLED Wait)
        /\ (run = "success" => output = << TotalLine(0) >>)
        /\ (run = "fatal" => cause = "list")

\* A listing of two empty pages ended with the total line.
C10_Witness == run = "success" /\ listed = <<>> /\ npages = 2 /\ TotalPrinted

\* ------------------------------------------------------------------ C11
\* C11: for every accepted value of the -batch flag, no delete request names
\* more entries than the configured batch size.
C11_RequestWithinBatchSize ==
    \A i \in 1..Len(workers) :
        /\ Len(workers[i].objectVersions) <= batchSize
        /\ Len(workers[i].Objects) <= batchSize

\* The same statement for the batch sizes >= 1.
C11_PositiveBatchSize == batchSize >= 1 => C11_RequestWithinBatchSize

\* A request naming as many entries as a batch size of 2 allows was issued.
C11_PositiveBatchSizeWitness ==
    /\ batchSize = 2
    /\ \E i \in 1..Len(workers) : Len(workers[i].Objects) = 2

\* ------------------------------------------------------------------ C12
\* C12: under fair scheduling, every run of a finite listing in which no
\* fatal error occurs reaches Done: the wait group counter is zero, the total
\* line is printed and the process exits successfully, also when more results
\* are outstanding than the results channel can buffer.
C12_ReachesDone ==
    [](run # "fatal") => <>(run = "success" /\ waitGroup = 0 /\ TotalPrinted)

\* main waits while the scaled channel is full and two workers are blocked
\* sending.
C12_Witness ==
    /\ run = "running" /\ pc = "wait"
    /\ resultsCap = ScaledResultsCap /\ Len(results) = resultsCap
    /\ Len(workers) = 3
    /\ workers[2].pc = "send" /\ workers[3].pc = "send"

\* ------------------------------------------------------------------ C13
\* The progress lines printed so far, in order.
ProgressLines == SelectSeq(output, LAMBDA l : l.kind = "progress")

\* Calls of waitGroup.Add(1) so far: one per started worker and one for the
\* batch whose worker main is about to start.
Added == Len(workers) + (IF pc \in {"go", "goFlush"} THEN 1 ELSE 0)

\* Calls of waitGroup.Done() so far: one per progress line, but for the line
\* just printed.
Signalled == Len(ProgressLines) - (IF aggPc = "done" THEN 1 ELSE 0)

\* C13: for each result the aggregator adds it to the totals, then prints one
\* progress line with the new totals, then signals the wait group; the k-th
\* progress line shows the sums over the first k results received; when the
\* total line is printed there is one progress line per dispatched batch, all
\* before the total line.
C13_ProgressLines ==
    /\ Len(ProgressLines) = Len(received) - (IF aggPc = "print" THEN 1 ELSE 0)
    /\ \A k \in 1..Len(ProgressLines) :
          /\ ProgressLines[k].processed =
                Sum([j \in 1..k |-> received[j].BatchSize])
          /\ ProgressLines[k].errors =
                Sum([j \in 1..k |-> received[j].ErrorCount])
    /\ numProcessed = Sum([j \in 1..Len(received) |-> received[j].BatchSize])
    /\ Added - waitGroup = Signalled
    /\ (aggPc = "done" => waitGroup >= 1)
    /\ TotalPrinted =>
          /\ Len(ProgressLines) = Len(workers)
          /\ output[Len(output)].kind = "total"
          /\ \A k \in 1..(Len(output) - 1) : output[k].kind = "progress"

\* Two results arrived, the second with an error; its line is printed and the
\* wait group not yet signalled for it.
C13_Witness ==
    /\ aggPc = "done" /\ Len(ProgressLines) = 2
    /\ ProgressLines[1] = [kind |-> "progress", processed |-> 2, errors |-> 0]
    /\ ProgressLines[2] = [kind |-> "progress", processed |-> 3, errors |-> 1]

\* ------------------------------------------------------------------ C14
\* The results the workers have produced so far: taken by the aggregator or
\* still in the channel.
ProducedResults == received \o results

\* C14: exactly one result is produced for each dispatched batch whose delete
\* request completed and whose worker has sent, none for any other batch; it
\* carries the number of entries of that batch and the number of per-item
\* failures the service reported, so 0 <= ErrorCount <= BatchSize when the
\* service reports at most one failure per named entry.
C14_OneResultPerBatch ==
    /\ \A x \in { ProducedResults[k] : k \in 1..Len(ProducedResults) } :
          Cardinality({ k \in 1..Len(ProducedResults) : ProducedResults[k] = x })
            = Cardinality({ i \in 1..Len(workers) :
                              /\ workers[i].pc = "done"
                              /\ x.BatchSize = Len(workers[i].Objects)
                              /\ x.ErrorCount = workers[i].ErrorCount })
    /\ Len(ProducedResults) =
          Cardinality({ i \in 1..Len(workers) : workers[i].pc = "done" })
    /\ \A k \in 1..Len(ProducedResults) :
          /\ 0 <= ProducedResults[k].ErrorCount
          /\ ProducedResults[k].ErrorCount <= ProducedResults[k].BatchSize
    /\ \A i \in 1..Len(workers) :
          workers[i].pc = "failed" => Len(ProducedResults) < Len(workers)

\* Three batches were dispatched; two results exist, one with an error, and
\* the third worker has not sent.
C14_Witness ==
    /\ Len(workers) = 3 /\ Len(ProducedResults) = 2
    /\ workers[3].pc = "send"
    /\ \E k \in 1..2 : ProducedResults[k] = [BatchSize |-> 1, ErrorCount |-> 1]
    /\ \E k \in 1..2 : ProducedResults[k] = [BatchSize |-> 1, ErrorCount |-> 0]

\* ------------------------------------------------------------------ C15
\* The number of leading and of trailing "/" of a string.
LeadingSlashes(str) ==
    CHOOSE i \in 0..Len(str) :
        /\ \A k \in 1..i : str[k] = "/"
        /\ (i < Len(str) => str[i + 1] # "/")
TrailingSlashes(str) ==
    CHOOSE i \in 0..Len(str) :
        /\ \A k \in (Len(str) - i + 1)..Len(str) : str[k] = "/"
        /\ (i < Len(str) => str[Len(str) - i] # "/")

\* C15: for every -prefix value the prefix used for the listing and the scope
\* check is the value without its leading and trailing "/", followed by one
\* "/" exactly when that is non-empty; so it is empty, or does not start with
\* "/" and ends with exactly one "/".
C15_PrefixNormalized ==
    pc = "parsed" =>
        LET lead == LeadingSlashes(fPrefix)
            trail == TrailingSlashes(fPrefix)
            core == IF lead = Len(fPrefix) THEN <<>>
                    ELSE SubSeq(fPrefix, lead + 1, Len(fPrefix) - trail)
        IN /\ prefix = (IF core = <<>> THEN <<>> ELSE core \o <<"/">>)
           /\ \/ prefix = <<>>
              \/ /\ Len(prefix) >= 2
                 /\ prefix[1] # "/"
                 /\ prefix[Len(prefix)] = "/"
                 /\ prefix[Len(prefix) - 1] # "/"

\* A value with a leading and an inner "/" was normalized.
C15_Witness ==
    /\ pc = "parsed" /\ fPrefix = << "/", "a", "/", "b" >>
    /\ prefix = << "a", "/", "b", "/" >>

\* ------------------------------------------------------------------ C16
\* C16: the running totals change only in the aggregator's step that takes a
\* result from the channel, once per result, and never decrease; in every
\* state numProcessed is the sum of BatchSize and numErrors the sum of
\* ErrorCount over exactly the results received so far.
C16_TotalsOwnedByAggregator ==
    /\ [](/\ numProcessed = Sum([k \in 1..Len(received) |-> received[k].BatchSize])
          /\ numErrors = Sum([k \in 1..Len(received) |-> received[k].ErrorCount]))
    /\ [][/\ numProcessed' >= numProcessed
          /\ numErrors' >= numErrors
          /\ (numProcessed' # numProcessed \/ numErrors' # numErrors) =>
                /\ aggPc = "recv" /\ aggPc' = "print"
                /\ received' = Append(received, Head(results))
                /\ results' = Tail(results)
          /\ received' # received =>
                /\ numProcessed' = numProcessed + Head(results).BatchSize
                /\ numErrors' = numErrors + Head(results).ErrorCount]_vars

\* The second result, of one entry with an error, was just added to the totals
\* of a first result of two entries.
C16_Witness ==
    /\ aggPc = "print" /\ Len(received) = 2
    /\ received[1] = [BatchSize |-> 2, ErrorCount |-> 0]
    /\ received[2] = [BatchSize |-> 1, ErrorCount |-> 1]
    /\ numProcessed = 3 /\ numErrors = 1

\* ------------------------------------------------------------------ C17
\* C17: the wait group is incremented once per dispatched batch, before the
\* batch's worker is started, and decremented once per result the aggregator
\* has processed; its counter is always the number of batches dispatched minus
\* the number of results aggregated, covers every started worker whose result
\* is not yet aggregated, and is never negative.
C17_BarrierCount ==
    /\ waitGroup >= 0
    /\ waitGroup = Added - Signalled
    /\ waitGroup >= Len(workers) - Signalled
    /\ Signalled <= Len(received)
    /\ (pc \in {"go", "goFlush"} =>
          /\ waitGroup >= 1
          /\ batch # <<>>
          /\ \A i \in 1..Len(workers) : workers[i].objectVersions # batch)

\* The third batch is counted and its worker not yet started, after the first
\* result was aggregated.
C17_Witness ==
    /\ pc = "go" /\ Len(workers) = 2 /\ Signalled = 1 /\ waitGroup = 2

\* ------------------------------------------------------------------ C18
\* A step of main before it waits on the wait group.
ListingStep ==
    \/ NextPage \/ NextPageFails \/ VersionsLoop \/ DeleteMarkersLoop
    \/ GoSealed \/ ListingEnds \/ Flush \/ GoFlush

\* Workers started and not yet done.
InFlight == { i \in 1..Len(workers) : workers[i].pc \in {"request", "call", "send"} }

\* C18: dispatch is fire-and-forget: whatever the workers and the aggregator
\* are doing, the listing loop and the flush can take their next step; the
\* worker of a sealed batch is the very next step of main; nothing caps the
\* workers in flight, which can be all the batches of the listing at once.
C18_FireAndForget ==
    /\ (run = "running" /\ pc \in {"list", "page", "go", "flush", "goFlush"})
          => ENABLED ListingStep
    /\ (run = "running" /\ pc = "go") => ENABLED GoSealed
    /\ (pc = "go" => Sealed(batch))

\* main has dispatched all three batches of the listing; all three requests
\* are sent and none of the workers has got its answer.
C18_Witness ==
    /\ pc = "wait" /\ Len(workers) = 3 /\ Len(listed) = 3
    /\ InFlight = 1..3
    /\ \A i \in 1..3 : workers[i].pc = "call"

\* ------------------------------------------------------------------ C19
\* The two sequences hold the same values the same number of times.
PermutationOf(s, t) ==
    /\ Len(s) = Len(t)
    /\ \A x \in { s[k] : k \in 1..Len(s) } \cup { t[k] : k \in 1..Len(t) } :
          Cardinality({ k \in 1..Len(s) : s[k] = x })
            = Cardinality({ k \in 1..Len(t) : t[k] = x })

\* What each delete request returned, in dispatch order.
Outcomes ==
    [i \in 1..Len(workers) |->
        [BatchSize |-> Len(workers[i].Objects), ErrorCount |-> workers[i].ErrorCount]]

\* C19: the results reach the aggregator in any order, not necessarily the
\* dispatch order; the final processed total, error total and printed grand
\* total are determined by the listing and the outcomes of the requests alone.
C19_OrderIndependentTotals ==
    TotalPrinted =>
        /\ PermutationOf(received, Outcomes)
        /\ numProcessed = Sum([i \in 1..Len(Outcomes) |-> Outcomes[i].BatchSize])
        /\ numErrors = Sum([i \in 1..Len(Outcomes) |-> Outcomes[i].ErrorCount])
        /\ (Outcomes # <<>> =>
              ProgressLines[Len(ProgressLines)] =
                  [kind |-> "progress",
                   processed |-> Sum([i \in 1..Len(Outcomes) |-> Outcomes[i].BatchSize]),
                   errors |-> Sum([i \in 1..Len(Outcomes) |-> Outcomes[i].ErrorCount])])
        /\ output[Len(output)] = [kind |-> "total", objects |-> Len(listed)]

\* The result of the second batch arrived before that of the first, and the
\* first progress line shows it.
C19_Witness ==
    /\ TotalPrinted /\ Len(workers) = 2
    /\ Outcomes = << [BatchSize |-> 2, ErrorCount |-> 0], [BatchSize |-> 1, ErrorCount |-> 1] >>
    /\ received = << [BatchSize |-> 1, ErrorCount |-> 1], [BatchSize |-> 2, ErrorCount |-> 0] >>
    /\ ProgressLines[1] = [kind |-> "progress", processed |-> 1, errors |-> 1]
    /\ numProcessed = 3 /\ numErrors = 1

\* ------------------------------------------------------------------ C20
\* The slice worker i holds shares its backing array with the accumulator.
SharesArray(i) == workers[i].arr = batchArr

\* C20: a batch handed to a delete worker is never changed by the listing
\* loop: the worker's slice always holds the entries it held at dispatch, the
\* request it sends names exactly those entries, the accumulator shares no
\* array with a dispatched batch while the listing goes on, and after the final
\* flush the accumulator still is the batch that was flushed.
C20_DispatchedBatchImmutable ==
    /\ \A i \in 1..Len(workers) :
          /\ workers[i].objectVersions = workers[i].atDispatch
          /\ (workers[i].pc # "request" =>
                 /\ Len(workers[i].Objects) = Len(workers[i].atDispatch)
                 /\ \A k \in 1..Len(workers[i].atDispatch) :
                       workers[i].Objects[k] =
                           [Key |-> workers[i].atDispatch[k].Key,
                            VersionId |-> workers[i].atDispatch[k].VersionId])
          /\ (SharesArray(i) =>
                 /\ Flushed
                 /\ i = Len(workers)
                 /\ batch = workers[i].atDispatch)
    /\ (Flushed /\ batch # <<>> =>
          /\ workers # <<>>
          /\ SharesArray(Len(workers)))

\* The first batch is sealed and its worker has not sent its request yet,
\* while the listing loop has appended a different entry to the next batch.
C20_Witness ==
    /\ run = "running" /\ batchSize = 2
    /\ Len(workers) = 1 /\ workers[1].pc = "request"
    /\ Len(batch) = 1 /\ batch[1] # workers[1].atDispatch[1]
    /\ ~Flushed

====
